---- MODULE Spec2Model ----
(***************************************************************************)
(* Phase orchestrator of backend/agents/crew.py (ProjectCrew) together     *)
(* with the task generators of backend/agents/development.py and           *)
(* backend/agents/operations.py.                                           *)
(*                                                                         *)
(* One orchestrator object is modelled.  A caller invokes execute_phase or *)
(* execute_full_pipeline on it, one call at a time (the code is            *)
(* synchronous).  The only points where the orchestrator waits for its     *)
(* environment are the calls of crew.kickoff(); every other piece of code  *)
(* between two such points is one atomic action.                           *)
(***************************************************************************)
EXTENDS Naturals, Sequences, FiniteSets, TLC

VARIABLES
    context,          \* self.context : key -> value, Absent when the key is missing
    results,          \* self.results : the results log
    agents,           \* self.agents  : role -> kind of the agent's get_tasks
    pc,               \* position of the orchestrator
    mode,             \* which public method the caller is in
    phase,            \* argument of the running execute_phase
    idx,              \* position of the for loop of execute_full_pipeline
    all_tasks,        \* the batch handed to Crew(...)
    crew,             \* the Crew built for the batch of the running phase
    ret,              \* value returned by the last execute_phase
    pipeline_ret,     \* value returned by the last execute_full_pipeline
    pipeline_done,    \* TRUE once execute_full_pipeline has returned
    calls,            \* number of public calls made by the caller
    invoked,          \* phases on which execute_phase was entered in this call
    kickoffs,         \* phases whose batch was dispatched in this call
    outcomes,         \* what crew.kickoff() did, per dispatch of this call
    context_before,   \* context at entry of the running execute_phase
    results_before,   \* results log at entry of the running public call
    propagated,       \* the exception that left the last public call, if one did
    default_provider, \* settings.DEFAULT_LLM_PROVIDER
    factory_role,     \* argument of AgentFactory.create_agent, a string of characters
    created,          \* what AgentFactory.create_agent did
    group_context,    \* argument of create_development_crew / create_review_crew
    group_built,      \* what the ad-hoc grouping call did
    llm_provider,     \* argument `provider` of LLMProvider.create, "" for None
    llm,              \* what LLMProvider.create did
    exec_agent,       \* the agent BaseAgent.execute is called on
    exec_context,     \* argument of BaseAgent.execute
    exec_pc,          \* position of BaseAgent.execute
    exec_tasks,       \* tasks = self.get_tasks(context) of BaseAgent.execute
    exec_kickoffs,    \* calls of crew.kickoff() made by BaseAgent.execute
    exec_outcomes,    \* what crew.kickoff() did, per call made by BaseAgent.execute
    exec_ret,         \* what BaseAgent.execute returned or raised
    api_keys,         \* the rows of the table api_keys
    next_id,          \* the id the next inserted row gets
    requests,         \* the requests to the api-keys endpoints, each with its position
    pair_idx,         \* position of two pipeline runs that are compared
    pair_context,     \* the context of each of the two runs
    pair_raw,         \* the raw results each of the two runs was given, per phase
    pair_batches      \* the task batches each of the two runs generated, per phase

\* the orchestrator and its caller
crew_vars == <<context, results, agents, pc, mode, phase, idx, all_tasks, crew,
               ret, pipeline_ret, pipeline_done, calls, invoked, kickoffs,
               outcomes, context_before, results_before, propagated>>

\* one call of AgentFactory.create_agent
factory_vars == <<factory_role, created, group_context, group_built,
                  llm_provider, llm>>

\* one call of BaseAgent.execute
execute_vars == <<exec_agent, exec_context, exec_pc, exec_tasks,
                  exec_kickoffs, exec_outcomes, exec_ret>>

\* the api-keys endpoints of api/settings.py
keys_vars == <<api_keys, next_id, requests>>

\* two pipeline runs side by side
pair_vars == <<pair_idx, pair_context, pair_raw, pair_batches>>

vars == <<crew_vars, default_provider, factory_vars, execute_vars, keys_vars,
          pair_vars>>

-----------------------------------------------------------------------------
(* Bounds of the model *)

\* public calls the caller makes on the orchestrator
MaxCalls == 2

\* length the results log may reach; a call is made only when it fits
MaxResults == 7

-----------------------------------------------------------------------------
(* ProjectPhase and the two static tables *)

PLANNING == "planning"
ARCHITECTURE == "architecture"
DEVELOPMENT == "development"
TESTING == "testing"
DEPLOYMENT == "deployment"
DOCUMENTATION == "documentation"

ProjectPhase ==
    {PLANNING, ARCHITECTURE, DEVELOPMENT, TESTING, DEPLOYMENT, DOCUMENTATION}

\* variant: the first two phases of the loop exchanged
phases_Swapped ==
    <<ARCHITECTURE, PLANNING, DEVELOPMENT, TESTING, DEPLOYMENT, DOCUMENTATION>>

phases ==
    <<PLANNING, ARCHITECTURE, DEVELOPMENT, TESTING, DEPLOYMENT, DOCUMENTATION>>

Roles ==
    {"architect", "backend", "frontend", "database",
     "devops", "qa", "security", "writer"}

\* variant: the two agents of the testing phase exchanged
phase_mapping_Testing(p) ==
    CASE p = PLANNING      -> <<"architect">>
      [] p = ARCHITECTURE  -> <<"architect", "database", "security">>
      [] p = DEVELOPMENT   -> <<"backend", "frontend", "database">>
      [] p = TESTING       -> <<"security", "qa">>
      [] p = DEPLOYMENT    -> <<"devops">>
      [] p = DOCUMENTATION -> <<"writer">>
      [] OTHER             -> <<>>

phase_mapping(p) ==
    CASE p = PLANNING      -> <<"architect">>
      [] p = ARCHITECTURE  -> <<"architect", "database", "security">>
      [] p = DEVELOPMENT   -> <<"backend", "frontend", "database">>
      [] p = TESTING       -> <<"qa", "security">>
      [] p = DEPLOYMENT    -> <<"devops">>
      [] p = DOCUMENTATION -> <<"writer">>
      [] OTHER             -> <<>>

get_phase_agents(p) == phase_mapping(p)

-----------------------------------------------------------------------------
(* The context mapping *)

Absent == "<absent>"

ContextKeys ==
    {"project_name", "requirements", "architecture", "api_spec",
     "design_spec", "api_endpoints", "data_model"}

EmptyContext == [k \in ContextKeys |-> Absent]

\* the context {"project_name": "Acme"}
AcmeContext == [EmptyContext EXCEPT !["project_name"] = "Acme"]

\* every recognized key but project_name
NamelessContext ==
    [k \in ContextKeys |->
        CASE k = "project_name"  -> Absent
          [] k = "requirements"  -> "reqs0"
          [] k = "architecture"  -> "arch0"
          [] k = "api_spec"      -> "spec0"
          [] k = "design_spec"   -> "design0"
          [] k = "api_endpoints" -> "endpoints0"
          [] k = "data_model"    -> "model0"]

\* the contexts an orchestrator is constructed with: between them every
\* recognized key occurs both present and absent
InitContexts == {AcmeContext, NamelessContext}

\* dict.get(key, default)
\* variant: context[key], no default
Get_Index(ctx, key, default) == ctx[key]

Get(ctx, key, default) == IF ctx[key] = Absent THEN default ELSE ctx[key]

-----------------------------------------------------------------------------
(* Task generation.  A Task is its template (agent role and position in    *)
(* the agent's list) with the values the f-string substitutes.             *)

NoArg == "<none>"

Task(role, n, project_name, arg) ==
    [agent |-> role, n |-> n, project_name |-> project_name, arg |-> arg]

ArchitectTasks(ctx) ==
    LET project_name == Get(ctx, "project_name", "Unknown Project")
        requirements == Get(ctx, "requirements", "{}")
    IN  << Task("architect", 1, project_name, requirements),
           Task("architect", 2, project_name, NoArg) >>

BackendTasks(ctx) ==
    LET project_name == Get(ctx, "project_name", "Unknown Project")
        architecture == Get(ctx, "architecture", "{}")
        api_spec     == Get(ctx, "api_spec", "{}")
    IN  << Task("backend", 1, project_name, architecture),
           Task("backend", 2, project_name, api_spec) >>

FrontendTasks(ctx) ==
    LET project_name  == Get(ctx, "project_name", "Unknown Project")
        design_spec   == Get(ctx, "design_spec", "{}")
        api_endpoints == Get(ctx, "api_endpoints", "[]")
    IN  << Task("frontend", 1, project_name, design_spec),
           Task("frontend", 2, project_name, api_endpoints) >>

DatabaseTasks(ctx) ==
    LET project_name == Get(ctx, "project_name", "Unknown Project")
        data_model   == Get(ctx, "data_model", "{}")
    IN  << Task("database", 1, project_name, data_model),
           Task("database", 2, project_name, NoArg) >>

DevOpsTasks(ctx) ==
    LET project_name == Get(ctx, "project_name", "Unknown Project")
        architecture == Get(ctx, "architecture", "{}")
    IN  << Task("devops", 1, project_name, architecture),
           Task("devops", 2, project_name, NoArg),
           Task("devops", 3, project_name, NoArg) >>

QATasks(ctx) ==
    LET project_name == Get(ctx, "project_name", "Unknown Project")
        requirements == Get(ctx, "requirements", "{}")
    IN  << Task("qa", 1, project_name, requirements),
           Task("qa", 2, project_name, NoArg),
           Task("qa", 3, project_name, NoArg) >>

SecurityTasks(ctx) ==
    LET project_name == Get(ctx, "project_name", "Unknown Project")
        architecture == Get(ctx, "architecture", "{}")
    IN  << Task("security", 1, project_name, architecture),
           Task("security", 2, project_name, NoArg),
           Task("security", 3, project_name, NoArg) >>

WriterTasks(ctx) ==
    LET project_name == Get(ctx, "project_name", "Unknown Project")
        api_spec     == Get(ctx, "api_spec", "{}")
    IN  << Task("writer", 1, project_name, api_spec),
           Task("writer", 2, project_name, NoArg) >>

\* The kinds of agent a roster entry can be: the class of the repository, or
\* a BaseAgent subclass whose get_tasks returns the empty list.
AgentKinds == {"concrete", "no_tasks"}

\* agent.get_tasks(context) of the roster entry `role`
get_tasks(kind, role, ctx) ==
    IF kind = "no_tasks" THEN <<>>
    ELSE CASE role = "architect" -> ArchitectTasks(ctx)
           [] role = "backend"   -> BackendTasks(ctx)
           [] role = "frontend"  -> FrontendTasks(ctx)
           [] role = "database"  -> DatabaseTasks(ctx)
           [] role = "devops"    -> DevOpsTasks(ctx)
           [] role = "qa"        -> QATasks(ctx)
           [] role = "security"  -> SecurityTasks(ctx)
           [] role = "writer"    -> WriterTasks(ctx)

RECURSIVE ExtendAll(_, _, _, _)
\* the loop `for agent in phase_agents: all_tasks.extend(agent.get_tasks(ctx))`
ExtendAll(roster, keys, ctx, acc) ==
    IF keys = <<>> THEN acc
    ELSE ExtendAll(roster, Tail(keys), ctx,
                   acc \o get_tasks(roster[Head(keys)], Head(keys), ctx))

\* variant: the agents of the phase are walked from the last to the first
CollectTasks_Reversed(roster, p, ctx) ==
    LET keys == get_phase_agents(p)
    IN  ExtendAll(roster, [j \in 1..Len(keys) |-> keys[Len(keys) + 1 - j]],
                  ctx, <<>>)

CollectTasks(roster, p, ctx) == ExtendAll(roster, get_phase_agents(p), ctx, <<>>)

-----------------------------------------------------------------------------
(* The execution layer: crew.kickoff() returns a raw result or raises.     *)

RawResults == {"{'ok': True}", "r2"}

\* exceptions (subclasses of Exception) as class name and constructor args
Exceptions ==
    { [cls |-> "ConnectionError", args |-> <<"timeout">>],
      [cls |-> "RuntimeError",    args |-> <<>>] }

\* one completed call of crew.kickoff(): it returned `value` or raised it
Outcome(p, raised, value) == [phase |-> p, raised |-> raised, value |-> value]

\* variant: the class name of the exception instead of str(e)
Str_ClassName(e) == e.cls

\* str(e) of an exception: '' without arguments, the argument when there is one
Str(e) == IF e.args = <<>> THEN "" ELSE e.args[1]

-----------------------------------------------------------------------------
(* CrewResult.  A dict is the set of its (key, value) items.               *)

CrewResult(p, status, outputs, errors) ==
    [phase |-> p, status |-> status, outputs |-> outputs, errors |-> errors]

NoResult == CrewResult("none", "none", {}, <<>>)

SkippedResult(p) ==
    CrewResult(p, "skipped", {}, <<"No tasks defined for this phase">>)

\* variant: the raw result stored under another key
CompletedResult_OutputKey(p, result) ==
    CrewResult(p, "completed", {<<"output", result>>}, <<>>)

CompletedResult(p, result) ==
    CrewResult(p, "completed", {<<"result", result>>}, <<>>)

\* variant: another status word for the failure
FailedResult_Error(p, e) ==
    CrewResult(p, "error", {}, <<Str(e)>>)

FailedResult(p, e) ==
    CrewResult(p, "failed", {}, <<Str(e)>>)

\* variant: a generic merge, the development result is written as well
update_context_Development(ctx, p, result) ==
    IF p = ARCHITECTURE THEN [ctx EXCEPT !["architecture"] = result]
    ELSE IF p = PLANNING THEN [ctx EXCEPT !["api_spec"] = result]
    ELSE IF p = DEVELOPMENT THEN [ctx EXCEPT !["design_spec"] = result]
    ELSE ctx

\* variant: the two written keys exchanged
update_context_Swapped(ctx, p, result) ==
    IF p = ARCHITECTURE THEN [ctx EXCEPT !["api_spec"] = result]
    ELSE IF p = PLANNING THEN [ctx EXCEPT !["architecture"] = result]
    ELSE ctx

\* variant: `else` in place of `elif phase == PLANNING`
update_context_Else(ctx, p, result) ==
    IF p = ARCHITECTURE THEN [ctx EXCEPT !["architecture"] = result]
    ELSE [ctx EXCEPT !["api_spec"] = result]

\* variant: the testing result is written to architecture as well
update_context_Testing(ctx, p, result) ==
    IF p \in {ARCHITECTURE, TESTING} THEN [ctx EXCEPT !["architecture"] = result]
    ELSE IF p = PLANNING THEN [ctx EXCEPT !["api_spec"] = result]
    ELSE ctx

\* ProjectCrew._update_context
update_context(ctx, p, result) ==
    IF p = ARCHITECTURE THEN [ctx EXCEPT !["architecture"] = result]
    ELSE IF p = PLANNING THEN [ctx EXCEPT !["api_spec"] = result]
    ELSE ctx

\* variant: the loop never breaks
PipelineStops_Never(result) == FALSE

\* variant: the loop breaks on every result that is not 'completed'
PipelineStops_NotCompleted(result) == result.status # "completed"

\* the test `result.status == "failed"` of the pipeline loop
PipelineStops(result) == result.status = "failed"

\* Crew(agents=[a.agent for a in phase_agents], tasks=all_tasks,
\*      process=Process.sequential, verbose=True)
Crew(phase_agents, tasks) ==
    [agents |-> phase_agents, tasks |-> tasks, process |-> "sequential"]

NoCrew == [agents |-> <<>>, tasks |-> <<>>, process |-> "none"]

\* what the orchestrator never touches
others == <<default_provider, factory_vars, execute_vars, keys_vars, pair_vars>>

\* no call of AgentFactory.create_agent has been made
NoFactoryCall ==
    /\ factory_role = <<>>
    /\ created = [status |-> "not_called", agent |-> "None", error |-> <<>>]
    /\ group_context = EmptyContext
    /\ group_built = [call |-> "none", status |-> "not_called", crew |-> NoCrew,
                      error |-> <<>>]
    /\ llm_provider = ""
    /\ llm = [status |-> "not_called", value |-> "None"]

\* no call of BaseAgent.execute has been made
NoExecuteCall ==
    /\ exec_agent = [role |-> "none", kind |-> "none"]
    /\ exec_context = EmptyContext
    /\ exec_pc = "idle"
    /\ exec_tasks = <<>>
    /\ exec_kickoffs = 0
    /\ exec_outcomes = <<>>
    /\ exec_ret = [outcome |-> "not_called",
                   value |-> [status |-> "none", results |-> "none"]]

\* no request has been made to the api-keys endpoints
NoKeyRequests ==
    /\ api_keys = {}
    /\ next_id = 1
    /\ requests = <<>>

\* no two runs are compared
NoPairRuns ==
    /\ pair_idx = 0
    /\ pair_context = <<>>
    /\ pair_raw = <<>>
    /\ pair_batches = <<>>

-----------------------------------------------------------------------------
(* Initial state: a freshly constructed ProjectCrew.                       *)

\* sets of roster entries whose get_tasks returns no task
NoTaskSets ==
    { {}, {"architect"}, {"qa", "security"}, Roles }

Rosters ==
    { [r \in Roles |-> IF r \in S THEN "no_tasks" ELSE "concrete"] :
        S \in NoTaskSets }

\* rosters with an agent whose get_tasks raises (database) or whose CrewAI
\* Agent cannot be built when the batch is assembled (devops)
RaisingRosters ==
    { [r \in Roles |-> IF r = "database" THEN "raising" ELSE "concrete"],
      [r \in Roles |-> IF r = "devops" THEN "unbuildable" ELSE "concrete"] }

\* what agent.get_tasks(self.context) raises when it raises
GenerationError == [cls |-> "TypeError", args |-> <<"get_tasks">>]

\* what the property a.agent raises when the Agent cannot be built
AssemblyError == [cls |-> "ValueError", args |-> <<"agent">>]

\* The exception that leaves execute_phase before the try: from the loop
\* over get_tasks, or from Crew(agents=[a.agent for a in phase_agents], ...)
\* once the batch is not empty; <<>> when there is none.
RaisedBeforeTry(roster, p, tasks) ==
    LET keys == get_phase_agents(p)
    IN  IF \E j \in DOMAIN keys : roster[keys[j]] = "raising"
        THEN <<GenerationError>>
        ELSE IF tasks # <<>> /\ \E j \in DOMAIN keys : roster[keys[j]] = "unbuildable"
        THEN <<AssemblyError>>
        ELSE <<>>

Init ==
    /\ context \in InitContexts
    /\ results = <<>>
    /\ agents \in Rosters \cup RaisingRosters
    /\ pc = "idle"
    /\ mode = "none"
    /\ phase = "none"
    /\ idx = 0
    /\ all_tasks = <<>>
    /\ crew = NoCrew
    /\ ret = NoResult
    /\ pipeline_ret = <<>>
    /\ pipeline_done = FALSE
    /\ calls = 0
    /\ invoked = <<>>
    /\ kickoffs = <<>>
    /\ outcomes = <<>>
    /\ context_before = context
    /\ results_before = <<>>
    /\ propagated = <<>>
    /\ default_provider = "openrouter"
    /\ NoFactoryCall
    /\ NoExecuteCall
    /\ NoKeyRequests
    /\ NoPairRuns

-----------------------------------------------------------------------------
(* execute_phase *)

\* variant: the loop goes on without looking at the result
AfterReturn_Loop(m) == IF m = "direct" THEN "idle" ELSE "loop"

\* where control goes when execute_phase returns
AfterReturn(m) == IF m = "direct" THEN "idle" ELSE "check"

\* variant: task generation stores the default of a missing project_name
EnterPhase_SetDefault(p, m, inv, kick) ==
    LET tasks == CollectTasks(agents, p, context)
    IN  /\ phase' = p
        /\ mode' = m
        /\ context_before' = context
        /\ invoked' = Append(inv, p)
        /\ context' = [context EXCEPT !["project_name"] =
                           Get(context, "project_name", "Unknown Project")]
        /\ propagated' = <<>>
        /\ IF tasks = <<>>
           THEN /\ ret' = SkippedResult(p)
                /\ all_tasks' = <<>>
                /\ crew' = NoCrew
                /\ kickoffs' = kick
                /\ pc' = AfterReturn(m)
           ELSE /\ ret' = NoResult
                /\ all_tasks' = tasks
                /\ crew' = Crew(get_phase_agents(p), tasks)
                /\ kickoffs' = Append(kick, p)
                /\ pc' = "kickoff"
        /\ UNCHANGED <<results, agents>>
        /\ UNCHANGED others

\* variant: no test for the empty batch, the batch is always dispatched
EnterPhase_NoSkip(p, m, inv, kick) ==
    /\ phase' = p
    /\ mode' = m
    /\ context_before' = context
    /\ invoked' = Append(inv, p)
    /\ ret' = NoResult
    /\ all_tasks' = CollectTasks(agents, p, context)
    /\ crew' = Crew(get_phase_agents(p), CollectTasks(agents, p, context))
    /\ kickoffs' = Append(kick, p)
    /\ pc' = "kickoff"
    /\ propagated' = <<>>
    /\ UNCHANGED <<context, results, agents>>
    /\ UNCHANGED others

\* variant: the try encloses task generation and assembly as well, so their
\* exceptions become 'failed' results
EnterPhase_TryAll(p, m, inv, kick) ==
    LET tasks == CollectTasks(agents, p, context)
        raised == RaisedBeforeTry(agents, p, tasks)
    IN  /\ phase' = p
        /\ mode' = m
        /\ context_before' = context
        /\ invoked' = Append(inv, p)
        /\ propagated' = <<>>
        /\ kickoffs' = IF raised = <<>> /\ tasks # <<>> THEN Append(kick, p)
                       ELSE kick
        /\ IF raised # <<>>
           THEN /\ ret' = FailedResult(p, raised[1])
                /\ results' = Append(results, FailedResult(p, raised[1]))
                /\ all_tasks' = <<>>
                /\ crew' = NoCrew
                /\ pc' = AfterReturn(m)
           ELSE IF tasks = <<>>
           THEN /\ ret' = SkippedResult(p)
                /\ all_tasks' = <<>>
                /\ crew' = NoCrew
                /\ pc' = AfterReturn(m)
                /\ UNCHANGED results
           ELSE /\ ret' = NoResult
                /\ all_tasks' = tasks
                /\ crew' = Crew(get_phase_agents(p), tasks)
                /\ pc' = "kickoff"
                /\ UNCHANGED results
        /\ UNCHANGED <<context, agents>>
        /\ UNCHANGED others

\* execute_phase from its entry up to the early return of the empty batch
\* or up to the call of crew.kickoff()
EnterPhase(p, m, inv, kick) ==
    LET tasks == CollectTasks(agents, p, context)
        raised == RaisedBeforeTry(agents, p, tasks)
    IN  /\ phase' = p
        /\ mode' = m
        /\ context_before' = context
        /\ invoked' = Append(inv, p)
        /\ propagated' = raised
        /\ IF raised # <<>>
           THEN \* the exception leaves execute_phase and its caller
                /\ ret' = NoResult
                /\ all_tasks' = <<>>
                /\ crew' = NoCrew
                /\ kickoffs' = kick
                /\ pc' = "idle"
           ELSE IF tasks = <<>>
           THEN /\ ret' = SkippedResult(p)
                /\ all_tasks' = <<>>
                /\ crew' = NoCrew
                /\ kickoffs' = kick
                /\ pc' = AfterReturn(m)
           ELSE /\ ret' = NoResult
                /\ all_tasks' = tasks
                /\ crew' = Crew(get_phase_agents(p), tasks)
                /\ kickoffs' = Append(kick, p)
                /\ pc' = "kickoff"
        /\ UNCHANGED <<context, results, agents>>
        /\ UNCHANGED others

\* the caller calls execute_phase(p)
ExecutePhase(p) ==
    /\ pc = "idle"
    /\ calls < MaxCalls
    /\ Len(results) < MaxResults
    /\ calls' = calls + 1
    /\ results_before' = results
    /\ pipeline_done' = FALSE
    /\ outcomes' = <<>>
    /\ EnterPhase(p, "direct", <<>>, <<>>)
    /\ UNCHANGED <<idx, pipeline_ret>>

\* The values crew.kickoff() returns for the batch of phase p.  The
\* orchestrator never looks into the value: it copies it into the outputs of
\* the CrewResult and, for planning and architecture, into the context.  Both
\* values are drawn for the phases whose result goes to the context as well.
KickoffResults(p) ==
    IF p \in {PLANNING, ARCHITECTURE} THEN RawResults ELSE {"r2"}

\* variant: the write-back keeps a value the context already holds
KickoffReturns_KeepFirst(result) ==
    /\ pc = "kickoff"
    /\ result \in KickoffResults(phase)
    /\ LET crew_result == CompletedResult(phase, result)
           written == update_context(context, phase, result)
       IN  /\ context' = [k \in DOMAIN context |->
                             IF context[k] = Absent THEN written[k]
                             ELSE context[k]]
           /\ results' = Append(results, crew_result)
           /\ ret' = crew_result
    /\ outcomes' = Append(outcomes, Outcome(phase, FALSE, result))
    /\ pc' = AfterReturn(mode)
    /\ UNCHANGED <<agents, mode, phase, idx, all_tasks, crew, pipeline_ret,
                   pipeline_done, calls, invoked, kickoffs, context_before,
                   results_before,
                   propagated>>
    /\ UNCHANGED others

\* crew.kickoff() returns `result`
KickoffReturns(result) ==
    /\ pc = "kickoff"
    /\ result \in KickoffResults(phase)
    /\ LET crew_result == CompletedResult(phase, result)
       IN  /\ context' = update_context(context, phase, result)
           /\ results' = Append(results, crew_result)
           /\ ret' = crew_result
    /\ outcomes' = Append(outcomes, Outcome(phase, FALSE, result))
    /\ pc' = AfterReturn(mode)
    /\ UNCHANGED <<agents, mode, phase, idx, all_tasks, crew, pipeline_ret,
                   pipeline_done, calls, invoked, kickoffs, context_before,
                   results_before,
                   propagated>>
    /\ UNCHANGED others

\* variant: a batch that raised is dispatched a second time
KickoffRaises_Retry(e) ==
    /\ pc = "kickoff"
    /\ outcomes' = Append(outcomes, Outcome(phase, TRUE, e))
    /\ IF Len(kickoffs) = Len(outcomes) + 1 /\ Len(kickoffs) < 2 * Len(invoked)
       THEN /\ kickoffs' = Append(kickoffs, phase)
            /\ pc' = "kickoff"
            /\ UNCHANGED <<results, ret>>
       ELSE /\ results' = Append(results, FailedResult(phase, e))
            /\ ret' = FailedResult(phase, e)
            /\ pc' = AfterReturn(mode)
            /\ UNCHANGED kickoffs
    /\ UNCHANGED <<context, agents, mode, phase, idx, all_tasks, crew,
                   pipeline_ret, pipeline_done, calls, invoked,
                   context_before, results_before,
                   propagated>>
    /\ UNCHANGED others

\* variant: the except branch writes the error back as a result
KickoffRaises_WriteBack(e) ==
    /\ pc = "kickoff"
    /\ LET crew_result == FailedResult(phase, e)
       IN  /\ results' = Append(results, crew_result)
           /\ ret' = crew_result
    /\ context' = update_context(context, phase, Str(e))
    /\ outcomes' = Append(outcomes, Outcome(phase, TRUE, e))
    /\ pc' = AfterReturn(mode)
    /\ UNCHANGED <<agents, mode, phase, idx, all_tasks, crew,
                   pipeline_ret, pipeline_done, calls, invoked, kickoffs,
                   context_before, results_before,
                   propagated>>
    /\ UNCHANGED others

\* crew.kickoff() raises `e`
KickoffRaises(e) ==
    /\ pc = "kickoff"
    /\ LET crew_result == FailedResult(phase, e)
       IN  /\ results' = Append(results, crew_result)
           /\ ret' = crew_result
    /\ outcomes' = Append(outcomes, Outcome(phase, TRUE, e))
    /\ pc' = AfterReturn(mode)
    /\ UNCHANGED <<context, agents, mode, phase, idx, all_tasks, crew,
                   pipeline_ret, pipeline_done, calls, invoked, kickoffs,
                   context_before, results_before,
                   propagated>>
    /\ UNCHANGED others

-----------------------------------------------------------------------------
(* execute_full_pipeline *)

\* variant: the pipeline starts from an emptied results log
ExecuteFullPipeline_Reset ==
    /\ pc = "idle"
    /\ calls < MaxCalls
    /\ Len(results) + Len(phases) <= MaxResults
    /\ calls' = calls + 1
    /\ results' = <<>>
    /\ results_before' = <<>>
    /\ pipeline_done' = FALSE
    /\ mode' = "pipeline"
    /\ idx' = 1
    /\ invoked' = <<>>
    /\ kickoffs' = <<>>
    /\ outcomes' = <<>>
    /\ propagated' = <<>>
    /\ pc' = "loop"
    /\ UNCHANGED <<context, agents, phase, all_tasks, crew, ret,
                   pipeline_ret, context_before>>
    /\ UNCHANGED others

\* the caller calls execute_full_pipeline()
ExecuteFullPipeline ==
    /\ pc = "idle"
    /\ calls < MaxCalls
    /\ Len(results) + Len(phases) <= MaxResults
    /\ calls' = calls + 1
    /\ results_before' = results
    /\ pipeline_done' = FALSE
    /\ mode' = "pipeline"
    /\ idx' = 1
    /\ invoked' = <<>>
    /\ kickoffs' = <<>>
    /\ outcomes' = <<>>
    /\ propagated' = <<>>
    /\ pc' = "loop"
    /\ UNCHANGED <<context, results, agents, phase, all_tasks, crew, ret,
                   pipeline_ret, context_before>>
    /\ UNCHANGED others

\* `for phase in phases: result = self.execute_phase(phase)`
PipelineNextPhase ==
    /\ pc = "loop"
    /\ idx <= Len(phases)
    /\ EnterPhase(phases[idx], "pipeline", invoked, kickoffs)
    /\ UNCHANGED <<idx, pipeline_ret, pipeline_done, calls, outcomes,
                   results_before>>

\* `if result.status == "failed": break`
PipelineCheck ==
    /\ pc = "check"
    /\ IF PipelineStops(ret)
       THEN pc' = "break" /\ idx' = idx
       ELSE pc' = "loop" /\ idx' = idx + 1
    /\ UNCHANGED <<context, results, agents, mode, phase, all_tasks, crew,
                   ret, pipeline_ret, pipeline_done, calls, invoked, kickoffs,
                   outcomes, context_before, results_before,
                   propagated>>
    /\ UNCHANGED others

\* variant: the return is reached only when the loop is exhausted; a break
\* waits
PipelineReturn_NoBreak ==
    /\ pc = "loop" /\ idx > Len(phases)
    /\ pipeline_ret' = results
    /\ pipeline_done' = TRUE
    /\ pc' = "idle"
    /\ UNCHANGED <<context, results, agents, mode, phase, idx, all_tasks,
                   crew, ret, calls, invoked, kickoffs, outcomes,
                   context_before, results_before,
                   propagated>>
    /\ UNCHANGED others

\* `return self.results`
PipelineReturn ==
    /\ \/ pc = "break"
       \/ pc = "loop" /\ idx > Len(phases)
    /\ pipeline_ret' = results
    /\ pipeline_done' = TRUE
    /\ pc' = "idle"
    /\ UNCHANGED <<context, results, agents, mode, phase, idx, all_tasks,
                   crew, ret, calls, invoked, kickoffs, outcomes,
                   context_before, results_before,
                   propagated>>
    /\ UNCHANGED others

Next ==
    \/ \E p \in ProjectPhase : ExecutePhase(p)
    \/ \E result \in RawResults : KickoffReturns(result)
    \/ \E e \in Exceptions : KickoffRaises(e)
    \/ ExecuteFullPipeline
    \/ PipelineNextPhase
    \/ PipelineCheck
    \/ PipelineReturn

Spec == Init /\ [][Next]_vars

\* crew.kickoff() ends, by a return or by a raise
KickoffEnds ==
    \/ \E result \in RawResults : KickoffReturns(result)
    \/ \E e \in Exceptions : KickoffRaises(e)

\* a caller that makes pipeline calls only
NextPipeline ==
    \/ ExecuteFullPipeline
    \/ PipelineNextPhase
    \/ KickoffEnds
    \/ PipelineCheck
    \/ PipelineReturn

\* The orchestrator is one thread of straight-line code: a step of the loop
\* that can be taken is taken.  Every call of crew.kickoff() ends.  Nothing
\* obliges the caller to call.
SpecLive ==
    /\ Init
    /\ [][NextPipeline]_vars
    /\ WF_vars(PipelineNextPhase)
    /\ WF_vars(PipelineCheck)
    /\ WF_vars(PipelineReturn)
    /\ WF_vars(KickoffEnds)

-----------------------------------------------------------------------------
(* AgentFactory.create_agent, called on its own (a static method) *)

\* the orchestrator's variables when no ProjectCrew takes part
NoProjectCrew ==
    /\ context = EmptyContext
    /\ results = <<>>
    /\ agents = [r \in Roles |-> "concrete"]
    /\ pc = "idle"
    /\ mode = "none"
    /\ phase = "none"
    /\ idx = 0
    /\ all_tasks = <<>>
    /\ crew = NoCrew
    /\ ret = NoResult
    /\ pipeline_ret = <<>>
    /\ pipeline_done = FALSE
    /\ calls = 0
    /\ invoked = <<>>
    /\ kickoffs = <<>>
    /\ outcomes = <<>>
    /\ context_before = EmptyContext
    /\ results_before = <<>>
    /\ propagated = <<>>

\* Settings.DEFAULT_LLM_PROVIDER: the values its description documents
DocumentedProviders == {"openrouter", "ollama", "openai", "anthropic"}

\* LLMProvider.create(provider): None is "" here; `provider or default`
LLMProviderCreate(provider, default) ==
    LET chosen == IF provider = "" THEN default ELSE provider
    IN  IF chosen = "openai" THEN [raised |-> FALSE, value |-> "ChatOpenAI"]
        ELSE IF chosen = "anthropic"
             THEN [raised |-> FALSE, value |-> "ChatAnthropic"]
        ELSE IF chosen = "openrouter"
             THEN [raised |-> FALSE, value |-> "ChatOpenAI(base_url)"]
        ELSE [raised |-> TRUE,
              value |-> [cls |-> "ValueError",
                         args |-> <<"Unsupported LLM provider: ", chosen>>]]

\* strings are sequences of characters
LowerLetters ==
    <<"a","b","c","d","e","f","g","h","i","j","k","l","m",
      "n","o","p","q","r","s","t","u","v","w","x","y","z">>
UpperLetters ==
    <<"A","B","C","D","E","F","G","H","I","J","K","L","M",
      "N","O","P","Q","R","S","T","U","V","W","X","Y","Z">>

\* str.lower(), character by character
LowerChar(ch) ==
    IF \E k \in DOMAIN UpperLetters : UpperLetters[k] = ch
    THEN LowerLetters[CHOOSE k \in DOMAIN UpperLetters : UpperLetters[k] = ch]
    ELSE ch
Lower(str) == [k \in DOMAIN str |-> LowerChar(str[k])]

UpperChar(ch) ==
    IF \E k \in DOMAIN LowerLetters : LowerLetters[k] = ch
    THEN UpperLetters[CHOOSE k \in DOMAIN LowerLetters : LowerLetters[k] = ch]
    ELSE ch

\* the keys of agent_map, spelled out
ArchitectKey == <<"a","r","c","h","i","t","e","c","t">>
BackendKey == <<"b","a","c","k","e","n","d">>
FrontendKey == <<"f","r","o","n","t","e","n","d">>
DatabaseKey == <<"d","a","t","a","b","a","s","e">>
DevopsKey == <<"d","e","v","o","p","s">>
QaKey == <<"q","a">>
SecurityKey == <<"s","e","c","u","r","i","t","y">>
WriterKey == <<"w","r","i","t","e","r">>

agent_map ==
    (ArchitectKey :> "ArchitectAgent") @@
    (BackendKey :> "BackendDeveloperAgent") @@
    (FrontendKey :> "FrontendDeveloperAgent") @@
    (DatabaseKey :> "DatabaseEngineerAgent") @@
    (DevopsKey :> "DevOpsEngineerAgent") @@
    (QaKey :> "QAEngineerAgent") @@
    (SecurityKey :> "SecurityAnalystAgent") @@
    (WriterKey :> "TechnicalWriterAgent")

\* how many leading characters of a role string the caller may write in
\* upper case
MaxUpper == 2

\* the spellings of a key with some of its leading characters in upper case
Spellings(key) ==
    { [k \in DOMAIN key |-> IF k \in S THEN UpperChar(key[k]) ELSE key[k]] :
        S \in SUBSET (1..MaxUpper) }

\* strings that are no roster name in any case
UnknownRoles ==
    { <<>>,
      <<"p","m">>,
      <<"a","r","c","h","i","t","e","c","t"," ">>,
      <<"a","r","c","h","i","t","e","c","t","s">>,
      <<"Q","A","1">>,
      <<"b","a","c","k","-","e","n","d">> }

RoleStrings ==
    UNION { Spellings(key) : key \in DOMAIN agent_map } \cup UnknownRoles

NoAgent == "None"

\* agent_class(): BaseAgent.__init__ binds the LLM of the configured default
Construct(agent_class, default) ==
    LET bound == LLMProviderCreate("", default)
    IN  IF bound.raised
        THEN [status |-> "raised", agent |-> NoAgent, error |-> bound.value]
        ELSE [status |-> "returned", agent |-> agent_class, error |-> <<>>]

\* create_agent(role)
create_agent(role, default) ==
    LET key == Lower(role)
    IN  IF key \in DOMAIN agent_map
        THEN Construct(agent_map[key], default)
        ELSE [status |-> "returned", agent |-> NoAgent, error |-> <<>>]

\* the context mappings the ad-hoc groupings are called with
GroupContexts == {EmptyContext, AcmeContext, NamelessContext}

\* the values of the argument `provider`: None, the documented identifiers
\* and identifiers that are not documented
ProviderArguments == {""} \cup DocumentedProviders \cup {"azure", "OpenAI"}

\* the agents of each ad-hoc grouping, as constructed
DevelopmentAgents == <<"architect", "backend", "frontend", "database">>
ReviewAgents == <<"qa", "security">>

RECURSIVE ConstructAll(_, _)
\* the list display [A(), B(), ...]: the first constructor that raises ends it
ConstructAll(roles, default) ==
    IF roles = <<>> THEN [status |-> "returned", error |-> <<>>]
    ELSE LET first == Construct(Head(roles), default)
         IN  IF first.status = "raised"
             THEN [status |-> "raised", error |-> first.error]
             ELSE ConstructAll(Tail(roles), default)

\* create_development_crew / create_review_crew for the agent list `roles`
create_crew(call, roles, ctx, default) ==
    LET made == ConstructAll(roles, default)
        fresh == [r \in Roles |-> "concrete"]
    IN  IF made.status = "raised"
        THEN [call |-> call, status |-> "raised", crew |-> NoCrew,
              error |-> made.error]
        ELSE [call |-> call, status |-> "returned",
              crew |-> Crew(roles, ExtendAll(fresh, roles, ctx, <<>>)),
              error |-> <<>>]

InitFactory ==
    /\ NoProjectCrew
    /\ default_provider \in DocumentedProviders
    /\ factory_role \in RoleStrings
    /\ created = [status |-> "not_called", agent |-> NoAgent, error |-> <<>>]
    /\ group_context \in GroupContexts
    /\ group_built = [call |-> "none", status |-> "not_called", crew |-> NoCrew,
                      error |-> <<>>]
    /\ llm_provider \in ProviderArguments
    /\ llm = [status |-> "not_called", value |-> "None"]
    /\ NoExecuteCall
    /\ NoKeyRequests
    /\ NoPairRuns

\* no call has been made on the factory or on LLMProvider yet
NoCallYet ==
    /\ created.status = "not_called"
    /\ group_built.status = "not_called"
    /\ llm.status = "not_called"

CreateAgent ==
    /\ NoCallYet
    /\ created' = create_agent(factory_role, default_provider)
    /\ UNCHANGED <<crew_vars, default_provider, factory_role, group_context,
                   group_built, llm_provider, llm, execute_vars,
                   keys_vars, pair_vars>>

\* AgentFactory.create_development_crew(context)
CreateDevelopmentCrew ==
    /\ NoCallYet
    /\ group_built' = create_crew("development", DevelopmentAgents,
                                  group_context, default_provider)
    /\ UNCHANGED <<crew_vars, default_provider, factory_role, created,
                   group_context, llm_provider, llm, execute_vars,
                   keys_vars, pair_vars>>

\* AgentFactory.create_review_crew(context)
CreateReviewCrew ==
    /\ NoCallYet
    /\ group_built' = create_crew("review", ReviewAgents,
                                  group_context, default_provider)
    /\ UNCHANGED <<crew_vars, default_provider, factory_role, created,
                   group_context, llm_provider, llm, execute_vars,
                   keys_vars, pair_vars>>

\* LLMProvider.create(provider)
LLMCreate ==
    /\ NoCallYet
    /\ LET made == LLMProviderCreate(llm_provider, default_provider)
       IN  llm' = [status |-> IF made.raised THEN "raised" ELSE "returned",
                   value |-> made.value]
    /\ UNCHANGED <<crew_vars, default_provider, factory_role, created,
                   group_context, group_built, llm_provider, execute_vars,
                   keys_vars, pair_vars>>

NextFactory ==
    \/ CreateAgent
    \/ CreateDevelopmentCrew
    \/ CreateReviewCrew
    \/ LLMCreate

SpecFactory == InitFactory /\ [][NextFactory]_vars

-----------------------------------------------------------------------------
(* BaseAgent.execute, called on one agent *)

\* every recognized key present
FullContext == [NamelessContext EXCEPT !["project_name"] = "Acme"]

\* the context mappings execute is called with: every choice of the
\* recognized keys that are present, the empty mapping among them
ExecContexts ==
    { [k \in ContextKeys |-> IF k \in S THEN FullContext[k] ELSE Absent] :
        S \in SUBSET ContextKeys }

\* the empty list []
EmptyList == "[]"

\* what execute returns: a dict with the keys status and results
ExecuteReturn(status, value) ==
    [outcome |-> "returned", value |-> [status |-> status, results |-> value]]

\* an exception leaving execute
ExecuteRaise(e) == [outcome |-> "raised", value |-> e]

InitAgent ==
    /\ NoProjectCrew
    /\ default_provider = "openrouter"
    /\ NoFactoryCall
    /\ exec_agent \in [role : Roles, kind : AgentKinds]
    /\ exec_context \in ExecContexts
    /\ exec_pc = "idle"
    /\ exec_tasks = <<>>
    /\ exec_kickoffs = 0
    /\ exec_outcomes = <<>>
    /\ exec_ret = [outcome |-> "not_called",
                   value |-> [status |-> "none", results |-> "none"]]
    /\ NoKeyRequests
    /\ NoPairRuns

\* variant: the crew is built and run whatever the task list
AgentExecute_NoCheck ==
    /\ exec_pc = "idle"
    /\ exec_tasks' = get_tasks(exec_agent.kind, exec_agent.role, exec_context)
    /\ exec_kickoffs' = exec_kickoffs + 1
    /\ exec_pc' = "kickoff"
    /\ UNCHANGED <<exec_agent, exec_context, exec_outcomes, exec_ret>>
    /\ UNCHANGED <<crew_vars, default_provider, factory_vars, keys_vars,
                   pair_vars>>

\* agent.execute(context) up to its return or to crew.kickoff()
AgentExecute ==
    /\ exec_pc = "idle"
    /\ LET tasks == get_tasks(exec_agent.kind, exec_agent.role, exec_context)
       IN  /\ exec_tasks' = tasks
           /\ IF tasks = <<>>
              THEN /\ exec_ret' = ExecuteReturn("no_tasks", EmptyList)
                   /\ exec_pc' = "returned"
                   /\ UNCHANGED exec_kickoffs
              ELSE /\ exec_kickoffs' = exec_kickoffs + 1
                   /\ exec_pc' = "kickoff"
                   /\ UNCHANGED exec_ret
    /\ UNCHANGED <<exec_agent, exec_context, exec_outcomes>>
    /\ UNCHANGED <<crew_vars, default_provider, factory_vars, keys_vars,
                   pair_vars>>

\* crew.kickoff() returns `result`
AgentKickoffReturns(result) ==
    /\ exec_pc = "kickoff"
    /\ exec_ret' = ExecuteReturn("completed", result)
    /\ exec_outcomes' = Append(exec_outcomes, Outcome("none", FALSE, result))
    /\ exec_pc' = "returned"
    /\ UNCHANGED <<exec_agent, exec_context, exec_tasks, exec_kickoffs>>
    /\ UNCHANGED <<crew_vars, default_provider, factory_vars, keys_vars,
                   pair_vars>>

\* variant: the exception is turned into a status value
AgentKickoffRaises_Caught(e) ==
    /\ exec_pc = "kickoff"
    /\ exec_ret' = ExecuteReturn("failed", Str(e))
    /\ exec_outcomes' = Append(exec_outcomes, Outcome("none", TRUE, e))
    /\ exec_pc' = "returned"
    /\ UNCHANGED <<exec_agent, exec_context, exec_tasks, exec_kickoffs>>
    /\ UNCHANGED <<crew_vars, default_provider, factory_vars, keys_vars,
                   pair_vars>>

\* crew.kickoff() raises `e`: no handler in execute
AgentKickoffRaises(e) ==
    /\ exec_pc = "kickoff"
    /\ exec_ret' = ExecuteRaise(e)
    /\ exec_outcomes' = Append(exec_outcomes, Outcome("none", TRUE, e))
    /\ exec_pc' = "raised"
    /\ UNCHANGED <<exec_agent, exec_context, exec_tasks, exec_kickoffs>>
    /\ UNCHANGED <<crew_vars, default_provider, factory_vars, keys_vars,
                   pair_vars>>

NextAgent ==
    \/ AgentExecute
    \/ \E result \in RawResults : AgentKickoffReturns(result)
    \/ \E e \in Exceptions : AgentKickoffRaises(e)

SpecAgent == InitAgent /\ [][NextAgent]_vars

-----------------------------------------------------------------------------
(* The api-keys endpoints of api/settings.py.  Every request runs in its    *)
(* own database session; a request gives way to the others at each await   *)
(* (the SELECT, the commit, the refresh).  The table has the unique         *)
(* constraint on provider of database/models.py.                            *)

\* requests made to the endpoints in one behaviour
MaxRequests == 2

KeyProviders == {"openai", "anthropic"}

KeyOperations == {"create", "update", "delete"}

\* a row of api_keys; api_key stands for the encrypted key and the fields
\* written with it
Row(id, provider, api_key) ==
    [id |-> id, provider |-> provider, api_key |-> api_key]

\* select(APIKey).where(APIKey.provider == provider): the ids found
RowsOf(provider) == {r.id : r \in {q \in api_keys : q.provider = provider}}

\* the tables the service starts with: empty, or a key stored for openai
InitialTables == { {}, {Row(1, "openai", 0)} }

InitKeys ==
    /\ NoProjectCrew
    /\ default_provider = "openrouter"
    /\ NoFactoryCall
    /\ NoExecuteCall
    /\ NoPairRuns
    /\ api_keys \in InitialTables
    /\ next_id = Cardinality(api_keys) + 1
    /\ requests = <<>>

\* a request arrives; the key it carries is named after the request
Arrive(op, provider) ==
    /\ Len(requests) < MaxRequests
    /\ requests' = Append(requests,
                          [op |-> op, provider |-> provider,
                           api_key |-> Len(requests) + 1, pc |-> "select",
                           existing |-> {}, response |-> "none"])
    /\ UNCHANGED <<api_keys, next_id>>
    /\ UNCHANGED <<crew_vars, default_provider, factory_vars, execute_vars,
                   pair_vars>>

\* the request ends with `response`
Respond(i, response) ==
    [requests EXCEPT ![i].pc = "done", ![i].response = response]

\* await db.execute(select ...) and the branch on scalar_one_or_none()
Select(i) ==
    /\ i \in DOMAIN requests
    /\ requests[i].pc = "select"
    /\ LET found == RowsOf(requests[i].provider)
       IN  requests' =
               IF found = {} /\ requests[i].op # "create"
               THEN Respond(i, "404")
               ELSE [requests EXCEPT ![i].existing = found,
                                     ![i].pc = "commit"]
    /\ UNCHANGED <<api_keys, next_id>>
    /\ UNCHANGED <<crew_vars, default_provider, factory_vars, execute_vars,
                   pair_vars>>

\* await db.commit(): the INSERT, UPDATE or DELETE of the session is flushed
Commit(i) ==
    /\ i \in DOMAIN requests
    /\ requests[i].pc = "commit"
    /\ LET req == requests[i]
           present == {r \in api_keys : r.id \in req.existing}
       IN  IF req.op = "delete"
           THEN /\ api_keys' = api_keys \ present
                /\ requests' = Respond(i, "204")
                /\ UNCHANGED next_id
           ELSE IF req.existing = {}
           THEN \* db.add(APIKey(...)): INSERT under the unique constraint
                IF RowsOf(req.provider) # {}
                THEN /\ requests' = Respond(i, "IntegrityError")
                     /\ UNCHANGED <<api_keys, next_id>>
                ELSE /\ api_keys' = api_keys \cup
                            {Row(next_id, req.provider, req.api_key)}
                     /\ next_id' = next_id + 1
                     /\ requests' = [requests EXCEPT ![i].existing = {next_id},
                                                     ![i].pc = "refresh"]
           ELSE \* UPDATE of the row that was selected
                IF present = {}
                THEN /\ requests' = Respond(i, "StaleDataError")
                     /\ UNCHANGED <<api_keys, next_id>>
                ELSE /\ api_keys' = (api_keys \ present) \cup
                            {Row(r.id, r.provider, req.api_key) : r \in present}
                     /\ requests' = [requests EXCEPT ![i].pc = "refresh"]
                     /\ UNCHANGED next_id
    /\ UNCHANGED <<crew_vars, default_provider, factory_vars, execute_vars,
                   pair_vars>>

\* await db.refresh(api_key) and the response
Refresh(i) ==
    /\ i \in DOMAIN requests
    /\ requests[i].pc = "refresh"
    /\ requests' =
           IF {r \in api_keys : r.id \in requests[i].existing} = {}
           THEN Respond(i, "InvalidRequestError")
           ELSE Respond(i, IF requests[i].op = "create" THEN "201" ELSE "200")
    /\ UNCHANGED <<api_keys, next_id>>
    /\ UNCHANGED <<crew_vars, default_provider, factory_vars, execute_vars,
                   pair_vars>>

NextKeys ==
    \/ \E op \in KeyOperations, provider \in KeyProviders : Arrive(op, provider)
    \/ \E i \in 1..MaxRequests : Select(i)
    \/ \E i \in 1..MaxRequests : Commit(i)
    \/ \E i \in 1..MaxRequests : Refresh(i)

SpecKeys == InitKeys /\ [][NextKeys]_vars

-----------------------------------------------------------------------------
(* Two runs of execute_full_pipeline, on two orchestrators constructed     *)
(* with the same context and the eight agents of the repository, taken     *)
(* phase by phase side by side.  In each run every batch completes, with   *)
(* a raw result drawn for that run.                                        *)

PairContexts == {EmptyContext, AcmeContext, NamelessContext, FullContext}

ConcreteRoster == [r \in Roles |-> "concrete"]

InitPair ==
    /\ NoProjectCrew
    /\ default_provider = "openrouter"
    /\ NoFactoryCall
    /\ NoExecuteCall
    /\ NoKeyRequests
    /\ pair_idx = 1
    /\ \E c \in PairContexts : pair_context = <<c, c>>
    /\ pair_raw = << <<>>, <<>> >>
    /\ pair_batches = << <<>>, <<>> >>

\* the next phase of the loop in both runs: the batch is generated from the
\* run's context, dispatched, and the raw result of the run is written back
PairPhase(r1, r2) ==
    /\ pair_idx <= Len(phases)
    /\ LET p == phases[pair_idx]
           raw == <<r1, r2>>
       IN  /\ pair_batches' =
                  [i \in {1, 2} |->
                      Append(pair_batches[i],
                             CollectTasks(ConcreteRoster, p, pair_context[i]))]
           /\ pair_context' =
                  [i \in {1, 2} |-> update_context(pair_context[i], p, raw[i])]
           /\ pair_raw' = [i \in {1, 2} |-> Append(pair_raw[i], raw[i])]
    /\ pair_idx' = pair_idx + 1
    /\ UNCHANGED <<crew_vars, default_provider, factory_vars, execute_vars,
                   keys_vars>>

NextPair == \E r1, r2 \in RawResults : PairPhase(r1, r2)

SpecPair == InitPair /\ [][NextPair]_vars

-----------------------------------------------------------------------------
(* Vocabulary of the properties.  The expected values are written out, not *)
(* taken from the definitions above.                                       *)

CanonicalOrder ==
    <<"planning", "architecture", "development",
      "testing", "deployment", "documentation">>

Last(s) == s[Len(s)]

Range(s) == {s[j] : j \in 1..Len(s)}

IsPrefix(s, t) == Len(s) <= Len(t) /\ \A j \in 1..Len(s) : s[j] = t[j]

PhasesOf(log) == [j \in 1..Len(log) |-> log[j].phase]

\* the entries the running (or last) public call has added to the log
AddedByCall == SubSeq(results, Len(results_before) + 1, Len(results))

AllConcrete == \A r \in DOMAIN agents : agents[r] = "concrete"

\* an execute_phase of this call has returned after its batch ran, and
\* nothing has been entered since
BatchJustRan ==
    /\ pc # "kickoff"
    /\ outcomes # <<>>
    /\ ret.status # "skipped"
    /\ propagated = <<>>

\* C1: inside one execute_full_pipeline call, every entry of execute_phase
\* takes the next phase of the canonical order (so each phase at most once),
\* happens only while no entry added by this call is 'failed', and a batch is
\* dispatched only by such an entry, for the phase just entered.
C1_OrderedStopOnFailed ==
    [][ (mode' = "pipeline" /\ calls' = calls) =>
          /\ invoked' # invoked =>
               /\ Len(invoked) < 6
               /\ invoked' = SubSeq(CanonicalOrder, 1, Len(invoked) + 1)
               /\ \A j \in 1..Len(AddedByCall) : AddedByCall[j].status # "failed"
          /\ kickoffs' # kickoffs =>
               /\ invoked' # invoked
               /\ kickoffs' = Append(kickoffs, Last(invoked')) ]_vars

C1_Witness ==
    /\ pipeline_done
    /\ ret.status = "failed"
    /\ invoked = <<"planning", "architecture", "development">>
    /\ kickoffs = invoked

\* C2: on a fresh orchestrator whose agents all produce tasks, the list
\* returned by execute_full_pipeline has one entry per execution-layer call,
\* in canonical order, 'failed' where the layer raised and 'completed' where
\* it returned; the layer raised at most on the last one, and the list is
\* shorter than six only if the last call raised.
C2_FreshPipelineResult ==
    (pipeline_done /\ results_before = <<>> /\ AllConcrete) =>
        LET n == Len(outcomes)
        IN  /\ n \in 1..6
            /\ Len(pipeline_ret) = n
            /\ \A j \in 1..n :
                 /\ outcomes[j].phase = CanonicalOrder[j]
                 /\ pipeline_ret[j].phase = CanonicalOrder[j]
                 /\ pipeline_ret[j].status =
                       IF outcomes[j].raised THEN "failed" ELSE "completed"
            /\ \A j \in 1..(n - 1) : ~outcomes[j].raised
            /\ n < 6 => outcomes[n].raised

C2_Witness ==
    /\ pipeline_done /\ results_before = <<>> /\ AllConcrete
    /\ Len(pipeline_ret) = 2
    /\ pipeline_ret[1].phase = "planning" /\ pipeline_ret[1].status = "completed"
    /\ pipeline_ret[2].phase = "architecture" /\ pipeline_ret[2].status = "failed"
    /\ "development" \notin Range(invoked)

\* C3: the phases of the list returned by execute_full_pipeline are a prefix
\* of the canonical order, and a 'failed' entry is the last element.
C3_ReturnedIsCanonicalPrefix ==
    pipeline_done =>
        /\ IsPrefix(PhasesOf(pipeline_ret), CanonicalOrder)
        /\ \A j \in 1..Len(pipeline_ret) :
             pipeline_ret[j].status = "failed" => j = Len(pipeline_ret)

\* C3 as amended: the list returned by execute_full_pipeline is the log as it
\* was when the call began followed by the entries of this call; these are,
\* in canonical order, the phases of a prefix of the canonical order whose
\* agents produced a task (a phase with an empty batch leaves no entry), and
\* a 'failed' entry among them is the last element of the list.
C3_AddedFollowCanonicalOrder ==
    pipeline_done =>
        LET n0 == Len(results_before)
            added == SubSeq(pipeline_ret, n0 + 1, Len(pipeline_ret))
            HasTasks(p) ==
                CASE p = "planning"      -> agents["architect"] = "concrete"
                  [] p = "architecture"  -> \E r \in {"architect", "database", "security"} :
                                                agents[r] = "concrete"
                  [] p = "development"   -> \E r \in {"backend", "frontend", "database"} :
                                                agents[r] = "concrete"
                  [] p = "testing"       -> \E r \in {"qa", "security"} :
                                                agents[r] = "concrete"
                  [] p = "deployment"    -> agents["devops"] = "concrete"
                  [] p = "documentation" -> agents["writer"] = "concrete"
        IN  /\ IsPrefix(results_before, pipeline_ret)
            /\ \E n \in 0..6 :
                 PhasesOf(added) = SelectSeq(SubSeq(CanonicalOrder, 1, n), HasTasks)
            /\ \A j \in 1..Len(added) :
                 added[j].status = "failed" => n0 + j = Len(pipeline_ret)

C3_Witness ==
    /\ pipeline_done
    /\ results_before # <<>>
    /\ Len(kickoffs) < Len(invoked)
    /\ Len(pipeline_ret) > Len(results_before) + 1
    /\ Last(pipeline_ret).status = "failed"

\* C4: in the pipeline loop a 'skipped' result moves on to the next phase,
\* the loop enters the phase at its position whenever one is left, and only
\* a 'failed' result breaks out of the loop.
C4_SkippedDoesNotHalt ==
    [][ /\ (pc = "check" /\ ret.status = "skipped") =>
              (pc' = "loop" /\ idx' = idx + 1)
        /\ (pc = "loop" /\ idx <= 6) =>
              invoked' = Append(invoked, CanonicalOrder[idx])
        /\ pc' = "break" => ret.status = "failed" ]_vars

C4_Witness ==
    /\ mode = "pipeline"
    /\ Len(invoked) >= 2
    /\ invoked[1] \notin Range(kickoffs)
    /\ invoked[2] \in Range(kickoffs)

\* C5: when the execution layer raised, execute_phase has returned a result
\* with the phase of the batch, status 'failed', no outputs and the message
\* of the exception as its only error.
C5_RaiseBecomesFailed ==
    (BatchJustRan /\ Last(outcomes).raised) =>
        LET o == Last(outcomes)
            message == CASE o.value.cls = "ConnectionError" -> "timeout"
                         [] o.value.cls = "RuntimeError"    -> ""
        IN  /\ pc \in {"idle", "check", "break"}
            /\ o.phase = phase
            /\ ret = [phase |-> phase, status |-> "failed",
                      outputs |-> {}, errors |-> <<message>>]

C5_Witness ==
    /\ BatchJustRan
    /\ Last(outcomes).raised
    /\ Last(outcomes).value.cls = "ConnectionError"
    /\ ret.phase = "architecture"
    /\ ret.errors = <<"timeout">>

\* C6: the result returned by execute_phase is the last entry of the log,
\* whatever its status.
C6_ReturnedIsLastOfLog ==
    ret.status \in {"completed", "failed", "skipped"} =>
        /\ results # <<>>
        /\ Last(results) = ret

\* C7: after a successful ARCHITECTURE batch with raw result r the context
\* has architecture = r, after a successful PLANNING batch api_spec = r.
C7_WriteBack ==
    (BatchJustRan /\ ~Last(outcomes).raised) =>
        LET o == Last(outcomes)
        IN  /\ o.phase = "architecture" => context["architecture"] = o.value
            /\ o.phase = "planning" => context["api_spec"] = o.value

C7_Witness ==
    /\ BatchJustRan
    /\ ~Last(outcomes).raised
    /\ Last(outcomes).phase = "planning"
    /\ context_before["api_spec"] = "spec0"
    /\ context["api_spec"] = "r2"

\* C8: a key of the context differs from its value at the entry of
\* execute_phase only after a completed batch, and then it is the key
\* architecture of phase ARCHITECTURE or the key api_spec of phase PLANNING.
C8_WriteBackWhitelist ==
    \A k \in DOMAIN context :
        context[k] # context_before[k] =>
            /\ ret.status = "completed"
            /\ \/ phase = "architecture" /\ k = "architecture"
               \/ phase = "planning" /\ k = "api_spec"

C8_Witness ==
    /\ BatchJustRan
    /\ ret.status = "completed"
    /\ ret.phase = "development"
    /\ context = context_before
    /\ context["architecture"] = "r2"

\* C9: when every agent of the entered phase produces no task, execute_phase
\* has returned 'skipped' with no outputs and a non-empty error list, without
\* a dispatch to the execution layer and with the context as at its entry.
C9_EmptyBatchSkipped ==
    LET roles == CASE phase = "planning"      -> {"architect"}
                   [] phase = "architecture"  -> {"architect", "database", "security"}
                   [] phase = "development"   -> {"backend", "frontend", "database"}
                   [] phase = "testing"       -> {"qa", "security"}
                   [] phase = "deployment"    -> {"devops"}
                   [] phase = "documentation" -> {"writer"}
                   [] OTHER                   -> {}
    IN  (invoked # <<>> /\ \A r \in roles : agents[r] = "no_tasks") =>
            /\ pc # "kickoff"
            /\ ret.phase = phase
            /\ ret.status = "skipped"
            /\ ret.outputs = {}
            /\ ret.errors # <<>>
            /\ phase \notin Range(kickoffs)
            /\ \A o \in Range(outcomes) : o.phase # phase
            /\ context = context_before

C9_Witness ==
    /\ ret.status = "skipped"
    /\ ret.phase = "testing"
    /\ agents["qa"] = "no_tasks"
    /\ context["api_spec"] = "r2"
    /\ context = context_before

\* C10: when the execution layer returned r, execute_phase has returned the
\* result (phase, 'completed', {'result': r}, []).
C10_CompletedResult ==
    (BatchJustRan /\ ~Last(outcomes).raised) =>
        LET o == Last(outcomes)
        IN  /\ o.phase = phase
            /\ ret = [phase |-> phase, status |-> "completed",
                      outputs |-> {<<"result", o.value>>}, errors |-> <<>>]

C10_Witness ==
    /\ BatchJustRan
    /\ context_before = [k \in DOMAIN context |->
                            IF k = "project_name" THEN "Acme" ELSE "<absent>"]
    /\ ret = [phase |-> "planning", status |-> "completed",
              outputs |-> {<<"result", "{'ok': True}">>}, errors |-> <<>>]
    /\ context["api_spec"] = "{'ok': True}"

\* C11: a call of execute_phase that has returned, also a repeated one for
\* a phase run before, has added exactly one entry to the log, the result it
\* returned, behind the entries the log held at the call.
C11_EachCallAddsOneEntry ==
    (mode = "direct" /\ pc = "idle") =>
        /\ ret.phase = phase
        /\ Len(results) = Len(results_before) + 1
        /\ results = Append(results_before, ret)

\* C12: the log only grows at its end, by one entry at a time; nothing
\* changes the log or the context between two calls or at the entry of a
\* call; execute_full_pipeline returns the whole log, which begins with what
\* the previous run returned and with the log as it was at the call.
C12_LogAppendOnly ==
    [][ /\ IsPrefix(results, results')
        /\ Len(results') <= Len(results) + 1
        /\ pc = "idle" => (results' = results /\ context' = context)
        /\ (pipeline_done' /\ ~pipeline_done) =>
              /\ pipeline_ret' = results'
              /\ IsPrefix(pipeline_ret, pipeline_ret')
              /\ IsPrefix(results_before, pipeline_ret') ]_vars

C12_Witness ==
    /\ mode = "pipeline"
    /\ pc # "idle"
    /\ pipeline_ret # <<>>
    /\ results_before = pipeline_ret
    /\ Len(results) > Len(pipeline_ret)
    /\ Last(results).phase = "architecture"

\* the agent class the factory is to build for each roster name
ExpectedClass ==
    <<  <<ArchitectKey, "ArchitectAgent">>,
        <<BackendKey, "BackendDeveloperAgent">>,
        <<FrontendKey, "FrontendDeveloperAgent">>,
        <<DatabaseKey, "DatabaseEngineerAgent">>,
        <<DevopsKey, "DevOpsEngineerAgent">>,
        <<QaKey, "QAEngineerAgent">>,
        <<SecurityKey, "SecurityAnalystAgent">>,
        <<WriterKey, "TechnicalWriterAgent">> >>

\* str is name, up to the case of its letters
SameIgnoringCase(str, name) ==
    /\ Len(str) = Len(name)
    /\ \A k \in DOMAIN name : str[k] = name[k] \/ str[k] = UpperChar(name[k])

\* what create_agent is to answer for the role string it was given
ExpectedAgent ==
    IF \E k \in DOMAIN ExpectedClass :
           SameIgnoringCase(factory_role, ExpectedClass[k][1])
    THEN ExpectedClass[CHOOSE k \in DOMAIN ExpectedClass :
             SameIgnoringCase(factory_role, ExpectedClass[k][1])][2]
    ELSE NoAgent

\* C13: create_agent(role) returns, for every string: an agent of the kind
\* named by the role read without regard to case when that is one of the
\* eight roster names, and None for every other string; it never raises.
C13_CreateAgentByRole ==
    created.status # "not_called" =>
        /\ created.status = "returned"
        /\ created.agent = ExpectedAgent

\* the lookup itself: whenever create_agent returns it returns the expected
\* agent, and for a string that is no roster name it always returns None
C13_LookupIsCaseInsensitive ==
    /\ created.status = "returned" => created.agent = ExpectedAgent
    /\ (created.status # "not_called" /\ ExpectedAgent = NoAgent) =>
           created.status = "returned"
    /\ created.status = "raised" => default_provider = "ollama"

\* C14: when get_tasks gives the empty list, execute returns
\* {'status': 'no_tasks', 'results': []} at once: no crew is kicked off.
C14_NoTasksReturnsAtOnce ==
    (exec_pc # "idle" /\ exec_tasks = <<>>) =>
        /\ exec_pc = "returned"
        /\ exec_ret.outcome = "returned"
        /\ exec_ret.value.status = "no_tasks"
        /\ exec_ret.value.results = "[]"
        /\ exec_kickoffs = 0
        /\ exec_outcomes = <<>>

C14_Witness ==
    /\ exec_pc = "returned"
    /\ exec_tasks = <<>>
    /\ exec_context = EmptyContext
    /\ exec_ret.value.status = "no_tasks"

\* C15: with a non-empty task list execute kicks the crew off exactly once;
\* when the kickoff returns r, execute returns
\* {'status': 'completed', 'results': r}; when it raises, that exception
\* leaves execute as it is and no status value is returned.
C15_DispatchOnceOrPropagate ==
    (exec_pc # "idle" /\ exec_tasks # <<>>) =>
        /\ exec_kickoffs = 1
        /\ exec_pc = "kickoff" =>
              (exec_outcomes = <<>> /\ exec_ret.outcome = "not_called")
        /\ exec_pc # "kickoff" =>
              /\ Len(exec_outcomes) = 1
              /\ IF exec_outcomes[1].raised
                 THEN /\ exec_pc = "raised"
                      /\ exec_ret.outcome = "raised"
                      /\ exec_ret.value = exec_outcomes[1].value
                 ELSE /\ exec_pc = "returned"
                      /\ exec_ret.outcome = "returned"
                      /\ exec_ret.value.status = "completed"
                      /\ exec_ret.value.results = exec_outcomes[1].value

C15_Witness ==
    /\ exec_pc = "raised"
    /\ exec_kickoffs = 1
    /\ exec_ret.outcome = "raised"
    /\ exec_ret.value.cls = "ConnectionError"

\* the number of tasks each agent of the repository generates
TaskCount ==
    [r \in {"architect", "backend", "frontend", "database", "devops", "qa",
            "security", "writer"} |->
        IF r \in {"devops", "qa", "security"} THEN 3 ELSE 2]

\* the value a template shows for a recognized key other than project_name
Shown(ctx, key) ==
    IF ctx[key] # "<absent>" THEN ctx[key]
    ELSE IF key = "api_endpoints" THEN "[]" ELSE "{}"

\* C18: each of the eight agents generates its whole task list from every
\* context mapping, the empty one included; a missing project_name shows as
\* 'Unknown Project' in every task, and a missing other key shows as the
\* empty default ({} or []), never as a missing value.
C18_MissingContextTolerated ==
    (exec_pc # "idle" /\ exec_agent.kind = "concrete") =>
        /\ Len(exec_tasks) = TaskCount[exec_agent.role]
        /\ \A n \in DOMAIN exec_tasks :
              /\ exec_tasks[n].agent = exec_agent.role
              /\ exec_tasks[n].n = n
              /\ exec_tasks[n].project_name =
                    IF exec_context["project_name"] = "<absent>"
                    THEN "Unknown Project"
                    ELSE exec_context["project_name"]
              /\ \/ exec_tasks[n].arg = "<none>"
                 \/ \E key \in {"requirements", "architecture", "api_spec",
                                "design_spec", "api_endpoints", "data_model"} :
                        exec_tasks[n].arg = Shown(exec_context, key)

C18_Witness ==
    /\ exec_pc = "kickoff"
    /\ exec_agent = [role |-> "frontend", kind |-> "concrete"]
    /\ exec_context = EmptyContext
    /\ exec_tasks[1].project_name = "Unknown Project"
    /\ exec_tasks[1].arg = "{}"
    /\ exec_tasks[2].arg = "[]"

\* the eight roster names
RosterNames ==
    {"architect", "backend", "frontend", "database",
     "devops", "qa", "security", "writer"}

\* the agents of each phase, in the order of the table
PhaseTable ==
    [p \in Range(CanonicalOrder) |->
        CASE p = "planning"      -> <<"architect">>
          [] p = "architecture"  -> <<"architect", "database", "security">>
          [] p = "development"   -> <<"backend", "frontend", "database">>
          [] p = "testing"       -> <<"qa", "security">>
          [] p = "deployment"    -> <<"devops">>
          [] p = "documentation" -> <<"writer">>]

\* C16: the roster holds the eight agents made at construction and no step
\* changes it; the crew built for a phase has exactly the agents the table
\* gives for that phase, in the table's order.
C16_StaticPhaseTable ==
    [][ /\ agents' = agents
        /\ DOMAIN agents' = RosterNames
        /\ pc' = "kickoff" => crew'.agents = PhaseTable[phase'] ]_vars

C16_Witness ==
    /\ pc = "kickoff"
    /\ phase = "architecture"
    /\ crew.agents = <<"architect", "database", "security">>
    /\ calls = 2

\* the place of an agent in the table row of a phase
PlaceIn(row, a) == CHOOSE j \in DOMAIN row : row[j] = a

\* C17: the batch handed to the crew of a phase is, agent by agent in the
\* order of the phase's table row, the whole task list of each agent in the
\* agent's own order, generated from the context as it was when
\* execute_phase was entered; the crew gets that batch whole and runs it
\* sequentially.
C17_BatchInTableOrder ==
    pc = "kickoff" =>
        LET row == PhaseTable[phase]
            batch == crew.tasks
        IN  /\ batch = all_tasks
            /\ crew.process = "sequential"
            /\ {batch[j].agent : j \in DOMAIN batch} =
                   {a \in Range(row) : agents[a] = "concrete"}
            /\ batch[1].n = 1
            /\ batch[Len(batch)].n = TaskCount[batch[Len(batch)].agent]
            /\ \A j \in 1..(Len(batch) - 1) :
                  \/ /\ batch[j + 1].agent = batch[j].agent
                     /\ batch[j + 1].n = batch[j].n + 1
                  \/ /\ PlaceIn(row, batch[j].agent) <
                            PlaceIn(row, batch[j + 1].agent)
                     /\ batch[j].n = TaskCount[batch[j].agent]
                     /\ batch[j + 1].n = 1
            /\ \A j \in DOMAIN batch :
                  /\ batch[j].project_name =
                        IF context_before["project_name"] = "<absent>"
                        THEN "Unknown Project"
                        ELSE context_before["project_name"]
                  /\ \/ batch[j].arg = "<none>"
                     \/ \E key \in {"requirements", "architecture",
                                    "api_spec", "design_spec",
                                    "api_endpoints", "data_model"} :
                            batch[j].arg = Shown(context_before, key)

C17_Witness ==
    /\ pc = "kickoff"
    /\ phase = "development"
    /\ [j \in 1..Len(crew.tasks) |-> <<crew.tasks[j].agent, crew.tasks[j].n>>] =
           << <<"backend", 1>>, <<"backend", 2>>, <<"frontend", 1>>,
              <<"frontend", 2>>, <<"database", 1>>, <<"database", 2>> >>
    /\ crew.tasks[1].arg # "{}"
    /\ crew.tasks[1].arg # "arch0"

\* how often p occurs in the sequence s
Count(s, p) == Cardinality({j \in DOMAIN s : s[j] = p})

\* C19: inside one public call every entry of execute_phase dispatches its
\* batch at most once: once when the batch is non-empty, not at all when it
\* is empty, and not again after the dispatch raised.  A direct call makes
\* at most one dispatch, a pipeline run at most one per phase and six in all.
C19_NoRetry ==
    /\ \A p \in Range(CanonicalOrder) : Count(kickoffs, p) <= Count(invoked, p)
    /\ Len(outcomes) <= Len(kickoffs)
    /\ Len(kickoffs) <= Len(outcomes) + 1
    /\ (pc # "kickoff") => Len(outcomes) = Len(kickoffs)
    /\ mode = "direct" => (Len(invoked) <= 1 /\ Len(kickoffs) <= 1)
    /\ mode = "pipeline" =>
          /\ Len(kickoffs) <= 6
          /\ \A p \in Range(CanonicalOrder) : Count(kickoffs, p) <= 1
    /\ (invoked # <<>> /\ pc # "loop" /\ pc # "break") =>
          (all_tasks # <<>> <=>
              (kickoffs # <<>> /\ Last(kickoffs) = Last(invoked)))

\* a phase that failed is run again by a second call of the caller
C19_Witness ==
    /\ mode = "direct"
    /\ calls = 2
    /\ pc = "kickoff"
    /\ kickoffs = <<phase>>
    /\ outcomes = <<>>
    /\ Len(results) = 1
    /\ results[1].status = "failed"
    /\ results[1].phase = phase

\* C20: the pipeline enters a phase only from the head of its loop, when the
\* batch of the phase before has returned or raised, its write-back is in
\* the context, its result is in the log and its status was looked at and
\* was not 'failed'; at no time are two batches in flight.
C20_OnePhaseAtATime ==
    [][ /\ Len(kickoffs') - Len(outcomes') \in {0, 1}
        /\ (pc' = "kickoff") <=> (Len(kickoffs') = Len(outcomes') + 1)
        /\ (mode = "pipeline" /\ invoked # <<>>
               /\ Len(invoked') = Len(invoked) + 1) =>
              /\ pc = "loop"
              /\ idx = Len(invoked) + 1
              /\ Len(outcomes) = Len(kickoffs)
              /\ ret.phase = Last(invoked)
              /\ ret.status # "failed"
              /\ ret.status = "completed" =>
                    /\ Last(results) = ret
                    /\ Last(outcomes).phase = ret.phase
                    /\ ~Last(outcomes).raised
                    /\ ret.phase = "planning" =>
                          context["api_spec"] = Last(outcomes).value
                    /\ ret.phase = "architecture" =>
                          context["architecture"] = Last(outcomes).value ]_vars

C20_Witness ==
    /\ mode = "pipeline"
    /\ pc = "kickoff"
    /\ phase = "development"
    /\ Len(kickoffs) = 3
    /\ Len(outcomes) = 2
    /\ context["architecture"] = outcomes[2].value
    /\ context["api_spec"] = outcomes[1].value
    /\ outcomes[1].value # outcomes[2].value

\* the phase entered before the running one in this pipeline run
PreviousPhase == invoked[Len(invoked) - 1]

\* C21 as stated: whenever a pipeline run generates the tasks of a phase
\* whose predecessor completed with raw result r, the context the tasks are
\* generated from holds r under some key.
C21_EveryOutputThreaded ==
    (mode = "pipeline" /\ pc = "kickoff" /\ Len(invoked) > 1
       /\ outcomes # <<>> /\ Last(outcomes).phase = PreviousPhase) =>
        \E k \in DOMAIN context_before :
            context_before[k] = Last(outcomes).value

\* C21 amended: in a pipeline run the context from which the tasks of a phase
\* are generated holds the result of the PLANNING batch of the run under
\* api_spec and the result of the ARCHITECTURE batch of the run under
\* architecture; the results of the other phases are under no key.
C21_WhitelistedOutputsThreaded ==
    (mode = "pipeline" /\ pc = "kickoff") =>
        /\ \A j \in DOMAIN outcomes :
              /\ outcomes[j].phase = "planning" =>
                    context_before["api_spec"] = outcomes[j].value
              /\ outcomes[j].phase = "architecture" =>
                    context_before["architecture"] = outcomes[j].value
        /\ \A k \in DOMAIN context_before \ {"api_spec", "architecture"} :
              context_before[k] \notin {"{'ok': True}", "r2"}

C21_Witness ==
    /\ mode = "pipeline"
    /\ pc = "kickoff"
    /\ phase = "testing"
    /\ Len(outcomes) = 3
    /\ outcomes[1].value = "{'ok': True}"
    /\ outcomes[2].value = "{'ok': True}"
    /\ outcomes[3].value = "r2"
    /\ context_before["api_spec"] = "{'ok': True}"
    /\ context_before["architecture"] = "{'ok': True}"

\* the keys on which two context mappings differ
ChangedKeys(c, d) == {k \in DOMAIN c : c[k] # d[k]}

\* C22: a step changes the context only when it is the return of a PLANNING
\* or ARCHITECTURE batch that completed, and then only the one key of that
\* phase, which becomes the raw result; the step that generates the tasks of
\* a phase, and every other step, leaves every key as it was.
C22_OnlyWriteBackChangesContext ==
    [][ /\ DOMAIN context' = DOMAIN context
        /\ invoked' # invoked => context' = context
        /\ context' # context =>
              /\ pc = "kickoff"
              /\ ret'.status = "completed"
              /\ Len(outcomes') = Len(outcomes) + 1
              /\ ~Last(outcomes').raised
              /\ \/ /\ phase = "planning"
                    /\ ChangedKeys(context, context') = {"api_spec"}
                    /\ context'["api_spec"] = Last(outcomes').value
                 \/ /\ phase = "architecture"
                    /\ ChangedKeys(context, context') = {"architecture"}
                    /\ context'["architecture"] = Last(outcomes').value ]_vars

\* the second write-back of a call sequence finds the context as the first
\* one left it
C22_Witness ==
    /\ pc = "kickoff"
    /\ phase = "architecture"
    /\ calls = 2
    /\ Len(results) = 1
    /\ results[1].phase = "planning"
    /\ results[1].status = "completed"
    /\ context["api_spec"] = "r2"
    /\ context = context_before
    /\ all_tasks # <<>>

\* the batch of an ad-hoc grouping: agent and position of every task
GroupBatch ==
    [development |->
        << <<"architect", 1>>, <<"architect", 2>>, <<"backend", 1>>,
           <<"backend", 2>>, <<"frontend", 1>>, <<"frontend", 2>>,
           <<"database", 1>>, <<"database", 2>> >>,
     review |->
        << <<"qa", 1>>, <<"qa", 2>>, <<"qa", 3>>,
           <<"security", 1>>, <<"security", 2>>, <<"security", 3>> >>]

GroupAgents ==
    [development |-> <<"architect", "backend", "frontend", "database">>,
     review |-> <<"qa", "security">>]

\* the crew a grouping call built is the sequential batch of its agents, in
\* their order, generated from the context the call was given
GroupCrewAsExpected ==
    LET built == group_built.crew
    IN  /\ built.agents = GroupAgents[group_built.call]
        /\ built.process = "sequential"
        /\ [j \in DOMAIN built.tasks |->
               <<built.tasks[j].agent, built.tasks[j].n>>] =
               GroupBatch[group_built.call]
        /\ \A j \in DOMAIN built.tasks :
              /\ built.tasks[j].project_name =
                    IF group_context["project_name"] = "<absent>"
                    THEN "Unknown Project"
                    ELSE group_context["project_name"]
              /\ \/ built.tasks[j].arg = "<none>"
                 \/ \E key \in {"requirements", "architecture", "api_spec",
                                "design_spec", "api_endpoints", "data_model"} :
                        built.tasks[j].arg = Shown(group_context, key)

\* no orchestrator and no execution layer took part
NoBookkeeping ==
    /\ context = [k \in DOMAIN context |-> "<absent>"]
    /\ results = <<>>
    /\ kickoffs = <<>>
    /\ exec_kickoffs = 0

\* C23: a call of create_development_crew or of create_review_crew builds
\* the one sequential batch of its agents with their task lists in that
\* order, and does nothing else: no orchestrator's context or log changes
\* and nothing is dispatched.
C23_GroupingBuildsBatch ==
    group_built.status # "not_called" =>
        /\ group_built.status = "returned"
        /\ GroupCrewAsExpected
        /\ NoBookkeeping

\* what holds of the groupings under every provider: a call that returns has
\* built the expected batch, a call raises only when the provider is ollama,
\* and neither outcome does any bookkeeping
C23_GroupingWhenConstructed ==
    /\ group_built.status = "returned" => GroupCrewAsExpected
    /\ group_built.status = "raised" => default_provider = "ollama"
    /\ NoBookkeeping

\* the identifier LLMProvider.create has to resolve: the argument, or the
\* configured default when none is given
RequestedProvider ==
    IF llm_provider = "" THEN default_provider ELSE llm_provider

\* C24: LLMProvider.create returns a binding for each of openrouter, ollama,
\* openai and anthropic, taking the configured default when no provider is
\* given, and raises ValueError for every other identifier; an agent
\* constructed under a documented default provider is constructed.
C24_DocumentedProvidersResolve ==
    /\ llm.status # "not_called" =>
          IF RequestedProvider \in {"openrouter", "ollama", "openai", "anthropic"}
          THEN llm.status = "returned"
          ELSE llm.status = "raised" /\ llm.value.cls = "ValueError"
    /\ created.status # "raised"
    /\ group_built.status # "raised"

\* what LLMProvider.create does: the three identifiers of its branches
\* resolve, every other one, ollama among them, raises ValueError
C24_SupportedProvidersResolve ==
    llm.status # "not_called" =>
        IF RequestedProvider \in {"openrouter", "openai", "anthropic"}
        THEN llm.status = "returned"
        ELSE /\ llm.status = "raised"
             /\ llm.value.cls = "ValueError"
             /\ llm.value.args = <<"Unsupported LLM provider: ", RequestedProvider>>

\* C25: the table never holds two rows of one provider, and two
\* create_api_key requests for anthropic, a provider with no row at the start
\* and with no delete request among the requests, both end with the 201
\* response.
C25_UpsertUnderConcurrency ==
    /\ \A provider \in {"openai", "anthropic"} :
          Cardinality({r \in api_keys : r.provider = provider}) <= 1
    /\ \A i, j \in DOMAIN requests :
          (/\ i # j
           /\ requests[i].op = "create" /\ requests[j].op = "create"
           /\ requests[i].provider = "anthropic"
           /\ requests[j].provider = "anthropic"
           /\ \A k \in DOMAIN requests : requests[k].op # "delete"
           /\ requests[i].pc = "done" /\ requests[j].pc = "done") =>
              (requests[i].response = "201" /\ requests[j].response = "201")

\* what does hold under every interleaving: one row per provider at most,
\* and a create that finds the row of its provider changes that row and adds
\* none
C25_OneRowPerProvider ==
    /\ \A provider \in {"openai", "anthropic"} :
          Cardinality({r \in api_keys : r.provider = provider}) <= 1
    /\ \A r, q \in api_keys : r.id = q.id => r = q

\* C26: when the execution layer raised, execute_phase has returned 'failed'
\* and every key of the context holds what it held when the phase was
\* entered, PLANNING and ARCHITECTURE included.
C26_FailedLeavesContext ==
    (pc # "kickoff" /\ outcomes # <<>> /\ Last(outcomes).raised
       /\ ret.status \notin {"skipped", "none"}) =>
        /\ ret.status = "failed"
        /\ ret.phase = Last(outcomes).phase
        /\ \A k \in {"project_name", "requirements", "architecture", "api_spec",
                     "design_spec", "api_endpoints", "data_model"} :
              context[k] = context_before[k]

C26_Witness ==
    /\ pc = "idle"
    /\ pipeline_done
    /\ Len(outcomes) = 2
    /\ ~outcomes[1].raised
    /\ outcomes[2].raised
    /\ ret.status = "failed"
    /\ ret.phase = "architecture"
    /\ context["api_spec"] = "r2"
    /\ context["architecture"] = "arch0"

\* the positions of the log that hold a 'completed' entry of phase p
CompletedAt(p) ==
    {j \in DOMAIN results : results[j].phase = p /\ results[j].status = "completed"}

\* the value a key held when the orchestrator was constructed: the
\* construction context is told by project_name, which no step changes
ConstructedWith(key) ==
    IF context["project_name"] = "Acme" THEN "<absent>"
    ELSE CASE key = "api_spec"     -> "spec0"
           [] key = "architecture" -> "arch0"

\* what the log says `key` holds: the raw result of the most recent
\* 'completed' entry of phase p, the constructed value when there is none
LogSays(p, key) ==
    IF CompletedAt(p) = {} THEN {ConstructedWith(key)}
    ELSE LET last == CHOOSE j \in CompletedAt(p) : \A i \in CompletedAt(p) : i <= j
         IN  {item[2] : item \in {o \in results[last].outputs : o[1] = "result"}}

\* C27: between calls, api_spec holds the result of the most recent
\* 'completed' PLANNING entry of the log and architecture that of the most
\* recent 'completed' ARCHITECTURE entry; a key with no such entry holds
\* what it held (or is absent as it was) at construction.
C27_ContextAgreesWithLog ==
    pc = "idle" =>
        /\ LogSays("planning", "api_spec") = {context["api_spec"]}
        /\ LogSays("architecture", "architecture") = {context["architecture"]}

C27_Witness ==
    /\ pc = "idle"
    /\ Len(results) = 2
    /\ results[1].phase = "planning"
    /\ results[1].outputs = {<<"result", "{'ok': True}">>}
    /\ results[2].phase = "planning"
    /\ results[2].outputs = {<<"result", "r2">>}
    /\ context["api_spec"] = "r2"
    /\ context["architecture"] = "arch0"

\* the step enters execute_phase, from the caller or from the pipeline loop
Entering ==
    \/ calls' = calls + 1 /\ mode' = "direct"
    \/ calls' = calls /\ Len(invoked') = Len(invoked) + 1

\* an agent of the entered phase raises before the try is reached
RaisesBeforeTry ==
    \/ phase' \in {"architecture", "development"} /\ agents["database"] = "raising"
    \/ phase' = "deployment" /\ agents["devops"] = "unbuildable"

\* C28: an entry of execute_phase in which task generation or the assembly
\* of the batch raises ends the public call with that exception: nothing is
\* dispatched, the log and the context stay as they were, no result is
\* returned by execute_phase nor by execute_full_pipeline.  An entry
\* 'failed' is added to the log only by a dispatch that raised.
C28_RaisedBeforeTryPropagates ==
    [][ /\ (Entering /\ RaisesBeforeTry) =>
              /\ propagated' =
                    IF agents["database"] = "raising"
                    THEN <<[cls |-> "TypeError", args |-> <<"get_tasks">>]>>
                    ELSE <<[cls |-> "ValueError", args |-> <<"agent">>]>>
              /\ pc' = "idle"
              /\ results' = results
              /\ context' = context
              /\ Len(kickoffs') <= Len(kickoffs)
              /\ ret'.status = "none"
              /\ ~pipeline_done'
              /\ pipeline_ret' = pipeline_ret
        /\ (results' # results /\ Last(results').status = "failed") =>
              /\ pc = "kickoff"
              /\ Len(outcomes') = Len(outcomes) + 1
              /\ Last(outcomes').raised ]_vars

C28_Witness ==
    /\ propagated = <<[cls |-> "TypeError", args |-> <<"get_tasks">>]>>
    /\ mode = "pipeline"
    /\ pc = "idle"
    /\ ~pipeline_done
    /\ invoked = <<"planning", "architecture">>
    /\ kickoffs = <<"planning">>
    /\ Len(results) = 1
    /\ results[1].status = "completed"
    /\ context["api_spec"] = "r2"
    /\ context["architecture"] = "arch0"

\* the positions of a batch at which the two runs hold different tasks
DifferingTasks(q) ==
    {i \in DOMAIN pair_batches[1][q] :
        i \notin DOMAIN pair_batches[2][q]
        \/ pair_batches[1][q][i] # pair_batches[2][q][i]}

\* C29: of two pipeline runs from equal contexts, the batches of a phase are
\* equal when the runs were given the same PLANNING and ARCHITECTURE results,
\* whatever the other results were.  The PLANNING and the ARCHITECTURE batch
\* are equal in any case.  Where a later batch differs, the differing tasks
\* are tasks of backend or writer and the PLANNING results differ, or tasks
\* of backend, security or devops and the ARCHITECTURE results differ.
C29_NonInterference ==
    \A q \in DOMAIN pair_batches[1] :
        /\ Len(pair_batches[1][q]) = Len(pair_batches[2][q])
        /\ q \in {1, 2} => pair_batches[1][q] = pair_batches[2][q]
        /\ q > 2 =>
            /\ (pair_raw[1][1] = pair_raw[2][1] /\ pair_raw[1][2] = pair_raw[2][2])
                  => pair_batches[1][q] = pair_batches[2][q]
            /\ \A i \in DifferingTasks(q) :
                  LET t == pair_batches[1][q][i]
                  IN  \/ /\ t.agent \in {"backend", "writer"}
                         /\ pair_raw[1][1] # pair_raw[2][1]
                         /\ t.arg = pair_raw[1][1]
                      \/ /\ t.agent \in {"backend", "security", "devops"}
                         /\ pair_raw[1][2] # pair_raw[2][2]
                         /\ t.arg = pair_raw[1][2]

C29_Witness ==
    /\ pair_idx = 7
    /\ pair_raw[1] = <<"r2", "{'ok': True}", "r2", "r2", "r2", "r2">>
    /\ pair_raw[2] = <<"r2", "{'ok': True}", "{'ok': True}", "{'ok': True}",
                       "{'ok': True}", "{'ok': True}">>
    /\ pair_batches[1] = pair_batches[2]
    /\ pair_batches[1][6][1].arg = "r2"
    /\ pair_batches[1][5][1].arg = "{'ok': True}"

\* execute_full_pipeline is running
PipelineRunning == mode = "pipeline" /\ pc \in {"loop", "kickoff", "check", "break"}

\* C30 as stated: a running execute_full_pipeline reaches its return.
C30_ReachesReturn == PipelineRunning ~> pipeline_done

\* C30: when every call of the execution layer ends, a running
\* execute_full_pipeline ends: it returns the log, or an exception raised
\* before a dispatch has left it; it enters execute_phase six times at most.
\* While a dispatched batch has not ended, the only step is the end of that
\* batch: no phase is entered and nothing is returned.
C30_PipelineTerminates ==
    /\ PipelineRunning ~>
          (pc = "idle" /\ (pipeline_done \/ propagated # <<>>))
    /\ [](mode = "pipeline" => Len(invoked) <= 6)
    /\ []((mode = "pipeline" /\ pipeline_done) => pipeline_ret = results)
    /\ [][ pc = "kickoff" =>
             /\ Len(outcomes') = Len(outcomes) + 1
             /\ invoked' = invoked
             /\ kickoffs' = kickoffs
             /\ pipeline_done' = pipeline_done ]_vars

C30_Witness ==
    /\ mode = "pipeline"
    /\ pc = "idle"
    /\ pipeline_done
    /\ Len(invoked) = 6
    /\ Len(outcomes) = 6
    /\ pipeline_ret = results
    /\ Len(results) = 6

====
